---- MODULE Spec2Model ----
(***************************************************************************)
(* Model of candycorn: a tool that patches the `__versions` table of a     *)
(* kernel module (src/src/main.rs).                                        *)
(*                                                                         *)
(* Bytes are naturals 0..255 and buffers are sequences of bytes.  Rust     *)
(* offsets are 0-based; Slice and splice below take 0-based half-open      *)
(* ranges lo..hi like the source and translate to 1-based sequences.       *)
(* An Option<T> is a sequence of length 0 (None) or 1 (Some(x)).           *)
(* A u64 is a sequence of four 16-bit limbs, most significant first, so    *)
(* that 0x0102030405060708 is <<258, 772, 1286, 1800>> and every 64-bit    *)
(* value keeps its full width.                                             *)
(* A String is a sequence of Unicode code points.                          *)
(***************************************************************************)
EXTENDS Integers, Sequences, FiniteSets, TLC

\* ------------------------------------------------------------------ bounds
\* Largest number of records in a target / source `__versions` section.
MaxRecs == 2
MaxSrcRecs == 2
\* Largest number of records in a file whose section is missing, of a wrong
\* size or longer than the file.
MaxBadRecs == 1

\* --------------------------------------------------------------- constants
MOD_VER_INFO_NAME_OFFSET == 8
MOD_VER_INFO_SIZE == 64
\* std::char::REPLACEMENT_CHARACTER, U+FFFD
REPLACEMENT_CHARACTER == 65533

None == << >>
Some(x) == << x >>

\* ----------------------------------------------------------- pure helpers
\* &s[lo .. hi]
Slice(s, lo, hi) == SubSeq(s, lo + 1, hi)

\* u64::from_le_bytes on an 8-byte slice
from_le_bytes(b) ==
    [k \in 1..4 |-> b[2 * (4 - k) + 1] + 256 * b[2 * (4 - k) + 2]]

\* A variant of to_le_bytes that gives the bytes most significant first.
to_be_bytes(v) ==
    [j \in 1..8 |->
        LET limb == v[((j - 1) \div 2) + 1]
        IN  IF (j - 1) % 2 = 0 THEN limb \div 256 ELSE limb % 256]

\* u64::to_le_bytes
to_le_bytes(v) ==
    [j \in 1..8 |->
        LET limb == v[4 - ((j - 1) \div 2)]
        IN  IF (j - 1) % 2 = 0 THEN limb % 256 ELSE limb \div 256]

\* String::from_utf8_lossy, on the bytes the model uses: an ASCII byte is its
\* own code point, and a byte in 0xF8..0xFF (never valid in UTF-8) becomes one
\* U+FFFD.
from_utf8_lossy(bytes) ==
    [i \in 1..Len(bytes) |->
        IF bytes[i] < 128 THEN bytes[i] ELSE REPLACEMENT_CHARACTER]

\* str_from_u8: the slice up to its first null byte, the whole slice when it
\* holds none.
str_from_u8(utf8) ==
    LET null_idx ==
            IF \E i \in 1..Len(utf8) : utf8[i] = 0
            THEN (CHOOSE i \in 1..Len(utf8) :
                      /\ utf8[i] = 0
                      /\ \A j \in 1..(i - 1) : utf8[j] # 0) - 1
            ELSE Len(utf8)
    IN  from_utf8_lossy(Slice(utf8, 0, null_idx))

\* kmod.shdr_strtab.get_at(sh.sh_name).unwrap_or("")
ShName(sh) == IF sh.sh_name = None THEN "" ELSE sh.sh_name[1]

RECURSIVE FindFrom(_, _, _)
FindFrom(headers, i, name) ==
    IF i > Len(headers) THEN None
    ELSE IF ShName(headers[i]) = name THEN Some(headers[i])
    ELSE FindFrom(headers, i + 1, name)

\* find_section: the first section header with the name, or None
find_section(kmod, name) == FindFrom(kmod.section_headers, 1, name)

\* HashMap::new and HashMap::insert (an insert under a present key replaces
\* the value)
EmptyMap == [n \in {} |-> 0]

\* A variant of insert into a map that is made anew for each record.
insert_fresh(versions, key, value) == [n \in {key} |-> value]

\* A variant of insert that leaves the value of a present key in place.
insert_keep_first(versions, key, value) ==
    [n \in (DOMAIN versions) \cup {key} |->
        IF n \in DOMAIN versions THEN versions[n] ELSE value]

insert(versions, key, value) ==
    [n \in (DOMAIN versions) \cup {key} |->
        IF n = key THEN value ELSE versions[n]]

\* The outcome of a call: it returns a value or it panics.
Return(v) == [panicked |-> FALSE, value |-> v]
Panic == [panicked |-> TRUE, value |-> None]

\* A variant of the loop that records the offsets 4 bytes apart.
RECURSIVE ParseEntries_stride(_, _, _, _, _)
ParseEntries_stride(mod_data, start_idx, i, entries, versions) ==
    IF i >= entries THEN Return(Some(versions))
    ELSE LET end_idx == start_idx + MOD_VER_INFO_SIZE IN
         IF end_idx > Len(mod_data) THEN Panic
         ELSE LET ver_info_name ==
                      Slice(mod_data, start_idx + MOD_VER_INFO_NAME_OFFSET,
                            end_idx)
                  sym_ver ==
                      [crc |-> from_le_bytes(
                                   Slice(mod_data, start_idx,
                                         start_idx + MOD_VER_INFO_NAME_OFFSET)),
                       offset |-> start_idx - (MOD_VER_INFO_SIZE - 4) * i]
              IN  ParseEntries_stride(mod_data,
                                      start_idx + MOD_VER_INFO_SIZE,
                                      i + 1, entries,
                                      insert(versions,
                                             str_from_u8(ver_info_name),
                                             sym_ver))

\* The loop `for _ in 0 .. entries` of get_versions, from its iteration i
\* on.  Indexing mod_data with a range that ends past the buffer panics.
\* (Offsets stay far below the width of usize, so start_idx never overflows.)
RECURSIVE ParseEntries(_, _, _, _, _)
ParseEntries(mod_data, start_idx, i, entries, versions) ==
    IF i >= entries THEN Return(Some(versions))
    ELSE LET end_idx == start_idx + MOD_VER_INFO_SIZE IN
         IF end_idx > Len(mod_data) THEN Panic
         ELSE LET ver_info_name ==
                      Slice(mod_data, start_idx + MOD_VER_INFO_NAME_OFFSET,
                            end_idx)
                  sym_ver ==
                      [crc |-> from_le_bytes(
                                   Slice(mod_data, start_idx,
                                         start_idx + MOD_VER_INFO_NAME_OFFSET)),
                       offset |-> start_idx]
              IN  ParseEntries(mod_data, start_idx + MOD_VER_INFO_SIZE,
                               i + 1, entries,
                               insert(versions, str_from_u8(ver_info_name),
                                      sym_ver))

\* A variant of get_versions without the check of the section size.
get_versions_rounding(info, mod_data) ==
    LET sec == find_section(info, "__versions") IN
    IF sec = None THEN Return(None)
    ELSE LET vers_sh == sec[1]
             entries == vers_sh.sh_size \div MOD_VER_INFO_SIZE
         IN  ParseEntries(mod_data, vers_sh.sh_offset, 0, entries, EmptyMap)

\* get_versions: None when the section is missing or its size is not a
\* multiple of the record size, else the map of the section's records.
get_versions(info, mod_data) ==
    LET sec == find_section(info, "__versions") IN
    IF sec = None THEN Return(None)
    ELSE LET vers_sh == sec[1]
             entries == vers_sh.sh_size \div MOD_VER_INFO_SIZE
         IN  IF entries * MOD_VER_INFO_SIZE # vers_sh.sh_size
             THEN Return(None)
             ELSE ParseEntries(mod_data, vers_sh.sh_offset, 0, entries,
                               EmptyMap)

\* A variant of splice that removes nothing.
splice_insert(buf, lo, hi, replace_with) ==
    Slice(buf, 0, lo) \o replace_with \o Slice(buf, lo, Len(buf))

\* Vec::splice(lo..hi, replace_with): the range is removed and the
\* replacement put in its place.
splice(buf, lo, hi, replace_with) ==
    Slice(buf, 0, lo) \o replace_with \o Slice(buf, hi, Len(buf))

\* "module_layout"
ModuleLayoutName == <<109, 111, 100, 117, 108, 101, 95, 108, 97, 121, 111, 117, 116>>

\* ------------------------------------------------------------------ inputs
Zeros(n) == [i \in 1..n |-> 0]
NameFieldLen == MOD_VER_INFO_SIZE - MOD_VER_INFO_NAME_OFFSET
Pad(s) == s \o Zeros(NameFieldLen - Len(s))

\* 56-byte name fields: "module_layout", "foo", "foo" followed by a null and
\* stale bytes, and fields without a null, filled with a byte that is not
\* UTF-8.
FieldModuleLayout == Pad(ModuleLayoutName)
FieldFoo == Pad(<<102, 111, 111>>)
FieldFooStale == Pad(<<102, 111, 111, 0, 122, 122>>)
FieldFullFF == [i \in 1..NameFieldLen |-> 255]
FieldFullFE == [i \in 1..NameFieldLen |-> 254]

TargetFields == {FieldModuleLayout, FieldFoo, FieldFooStale, FieldFullFF}
SourceFields == {FieldModuleLayout, FieldFoo, FieldFullFE}

SeqsUpTo(S, n) == UNION {[1..k -> S] : k \in 0..n}

\* The 8 checksum bytes of record i of a module; `base` tells the modules
\* apart, so that all checksum bytes of a run differ.
CrcBytes(base, i) == [j \in 1..8 |-> base + 16 * i + j]

RECURSIVE Records(_, _, _)
Records(fields, base, i) ==
    IF i > Len(fields) THEN << >>
    ELSE CrcBytes(base, i) \o fields[i] \o Records(fields, base, i + 1)

\* Two layouts of a module file.  Layout 1, of the targets: the section
\* after 3 bytes, up to the end of the file, with other section headers
\* around the `__versions` one.  Layout 2, of the sources: the section at
\* offset 0 and before 5 more bytes, and no other section header.
Leader(geo) == IF geo = 1 THEN <<201, 202, 203>> ELSE << >>
Trailer(geo) == IF geo = 1 THEN << >> ELSE <<211, 212, 213, 214, 215>>

SectionSize(n, defect) ==
    CASE defect = "badsize" -> MOD_VER_INFO_SIZE * n + 40
      [] defect = "oob" -> MOD_VER_INFO_SIZE * (n + 1)
      [] OTHER -> MOD_VER_INFO_SIZE * n

Headers(n, geo, defect) ==
    LET vname == IF defect = "absent" THEN ".modinfo" ELSE "__versions"
        vers == [sh_name |-> Some(vname), sh_offset |-> Len(Leader(geo)),
                 sh_size |-> SectionSize(n, defect)]
    IN  IF geo = 2 THEN <<vers>>
        ELSE << [sh_name |-> Some(".text"), sh_offset |-> 0,
                 sh_size |-> Len(Leader(geo))],
                [sh_name |-> None, sh_offset |-> 0, sh_size |-> 1],
                vers,
                [sh_name |-> Some(vname), sh_offset |-> 0, sh_size |-> 1] >>

\* A file: whether std::fs::read succeeds, whether goblin parses it, its
\* bytes and the section headers goblin finds in them.
MkFile(fields, base, geo, defect) ==
    [readable |-> TRUE, parsable |-> TRUE,
     data |-> Leader(geo) \o Records(fields, base, 1) \o Trailer(geo),
     section_headers |-> Headers(Len(fields), geo, defect)]

Unreadable ==
    [readable |-> FALSE, parsable |-> FALSE, data |-> << >>,
     section_headers |-> << >>]
Unparsable ==
    [readable |-> TRUE, parsable |-> FALSE, data |-> <<1, 2, 3>>,
     section_headers |-> << >>]

Defects == {"absent", "badsize", "oob"}

TargetFiles ==
    {Unreadable, Unparsable}
    \cup {MkFile(f, 0, 1, "ok") : f \in SeqsUpTo(TargetFields, MaxRecs)}
    \cup {MkFile(f, 0, 1, d) : f \in SeqsUpTo(TargetFields, MaxBadRecs),
                               d \in Defects}

SourceFiles ==
    {Unreadable, Unparsable}
    \cup {MkFile(f, 128, 2, "ok") : f \in SeqsUpTo(SourceFields, MaxSrcRecs)}
    \cup {MkFile(f, 128, 2, d) : f \in SeqsUpTo(SourceFields, MaxBadRecs),
                                 d \in Defects}

\* values of --module-layout-version: 0x0102030405060708
LayoutVersions == {<<258, 772, 1286, 1800>>}

\* ------------------------------------------------------------------- state
VARIABLES
    args,        \* the parsed command line: src, module_layout_version, target
    pc,          \* the statement of main that runs next
    outcome,     \* "running", or how the process ended
    t_buffer,    \* the target's bytes in memory
    t_versions,  \* Option: the target's decoded table
    s_versions,  \* Option: the source's decoded table
    visited,     \* keys of t_versions the merge loop has been through
    writes,      \* calls of std::fs::write so far
    output       \* Option: the bytes of the written file

vars == <<args, pc, outcome, t_buffer, t_versions, s_versions, visited,
          writes, output>>

\* The exit status of each way the process ends.
ExitCode(o) ==
    CASE o = "done" -> 0
      [] o = "warn_absent" -> 0
      [] o = "exit1" -> 1
      [] o = "usage" -> 2
      [] o = "panic" -> 101

Init ==
    /\ args \in [src : {None} \cup {Some(f) : f \in SourceFiles},
                 module_layout_version :
                     {None} \cup {Some(v) : v \in LayoutVersions},
                 target : TargetFiles]
    /\ pc = "parse_args"
    /\ outcome = "running"
    /\ t_buffer = << >>
    /\ t_versions = None
    /\ s_versions = None
    /\ visited = {}
    /\ writes = 0
    /\ output = None

\* The process ends at the current statement.
Exit(o) ==
    /\ outcome' = o
    /\ UNCHANGED <<args, pc, t_buffer, t_versions, s_versions, visited,
                   writes, output>>

\* Execution moves on to statement p, nothing else changes.
Goto(p) ==
    /\ pc' = p
    /\ UNCHANGED <<args, outcome, t_buffer, t_versions, s_versions, visited,
                   writes, output>>

\* Args::parse(): module_layout_version is required unless src is given.
ParseArgs ==
    /\ pc = "parse_args" /\ outcome = "running"
    /\ IF args.src = None /\ args.module_layout_version = None
       THEN Exit("usage")
       ELSE Goto("read_target")

\* std::fs::read(args.target)
ReadTarget ==
    /\ pc = "read_target" /\ outcome = "running"
    /\ IF ~args.target.readable
       THEN Exit("exit1")
       ELSE /\ t_buffer' = args.target.data
            /\ pc' = "parse_target"
            /\ UNCHANGED <<args, outcome, t_versions, s_versions, visited,
                           writes, output>>

\* goblin::elf::Elf::parse(&t_buffer)
ParseTarget ==
    /\ pc = "parse_target" /\ outcome = "running"
    /\ IF ~args.target.parsable
       THEN Exit("exit1")
       ELSE Goto("check_versions")

\* A variant of the section check that does not return.
CheckVersions_no_return ==
    /\ pc = "check_versions" /\ outcome = "running"
    /\ Goto("get_t_versions")

\* main returns after a warning when the target has no `__versions` section
CheckVersions ==
    /\ pc = "check_versions" /\ outcome = "running"
    /\ IF find_section(args.target, "__versions") = None
       THEN Exit("warn_absent")
       ELSE Goto("get_t_versions")

\* get_versions(&t_ko, &t_buffer).unwrap()
DecodeTarget ==
    /\ pc = "get_t_versions" /\ outcome = "running"
    /\ LET r == get_versions(args.target, t_buffer) IN
       IF r.panicked \/ r.value = None
       THEN Exit("panic")
       ELSE /\ t_versions' = r.value
            /\ pc' = IF args.src # None THEN "read_source" ELSE "override"
            /\ UNCHANGED <<args, outcome, t_buffer, s_versions, visited,
                           writes, output>>

\* std::fs::read(args.src)
ReadSource ==
    /\ pc = "read_source" /\ outcome = "running"
    /\ IF ~args.src[1].readable
       THEN Exit("exit1")
       ELSE Goto("parse_source")

\* goblin::elf::Elf::parse(&s_buffer)
ParseSource ==
    /\ pc = "parse_source" /\ outcome = "running"
    /\ IF ~args.src[1].parsable
       THEN Exit("exit1")
       ELSE Goto("get_s_versions")

\* A variant of the source decoding that goes on with an empty table when
\* get_versions returns None.
DecodeSource_or_default ==
    /\ pc = "get_s_versions" /\ outcome = "running"
    /\ LET r == get_versions(args.src[1], args.src[1].data) IN
       IF r.panicked THEN Exit("panic")
       ELSE /\ s_versions' = IF r.value = None THEN Some(EmptyMap) ELSE r.value
            /\ pc' = "merge"
            /\ UNCHANGED <<args, outcome, t_buffer, t_versions, visited,
                           writes, output>>

\* match get_versions(&s_ko, &s_buffer) { None => exit(1) }
DecodeSource ==
    /\ pc = "get_s_versions" /\ outcome = "running"
    /\ LET r == get_versions(args.src[1], args.src[1].data) IN
       IF r.panicked THEN Exit("panic")
       ELSE IF r.value = None THEN Exit("exit1")
       ELSE /\ s_versions' = r.value
            /\ pc' = "merge"
            /\ UNCHANGED <<args, outcome, t_buffer, t_versions, visited,
                           writes, output>>

\* One iteration of `for name in t_versions.keys()`; a HashMap yields its
\* keys in an order of its own.
MergeStep ==
    /\ pc = "merge" /\ outcome = "running"
    /\ \E name \in (DOMAIN t_versions[1]) \ visited :
        /\ visited' = visited \cup {name}
        /\ IF name \in DOMAIN s_versions[1]
           THEN LET off == t_versions[1][name].offset IN
                t_buffer' = splice(t_buffer, off, off + 8,
                                   to_le_bytes(s_versions[1][name].crc))
           ELSE t_buffer' = t_buffer
    /\ UNCHANGED <<args, pc, outcome, t_versions, s_versions, writes, output>>

\* The loop ends when every key has been visited.
MergeDone ==
    /\ pc = "merge" /\ outcome = "running"
    /\ visited = DOMAIN t_versions[1]
    /\ Goto("override")

\* A variant of the override step that keeps the checksum the source gave
\* for module_layout.
Override_unless_source ==
    /\ pc = "override" /\ outcome = "running"
    /\ IF \/ args.module_layout_version = None
          \/ (s_versions # None /\ ModuleLayoutName \in DOMAIN s_versions[1])
       THEN Goto("write")
       ELSE IF ModuleLayoutName \notin DOMAIN t_versions[1]
       THEN Exit("panic")
       ELSE LET off == t_versions[1][ModuleLayoutName].offset IN
            /\ t_buffer' = splice(t_buffer, off, off + 8,
                                  to_le_bytes(args.module_layout_version[1]))
            /\ pc' = "write"
            /\ UNCHANGED <<args, outcome, t_versions, s_versions, visited,
                           writes, output>>

\* A variant of the override step that goes on when the target has no
\* module_layout.
Override_if_present ==
    /\ pc = "override" /\ outcome = "running"
    /\ IF \/ args.module_layout_version = None
          \/ ModuleLayoutName \notin DOMAIN t_versions[1]
       THEN Goto("write")
       ELSE LET off == t_versions[1][ModuleLayoutName].offset IN
            /\ t_buffer' = splice(t_buffer, off, off + 8,
                                  to_le_bytes(args.module_layout_version[1]))
            /\ pc' = "write"
            /\ UNCHANGED <<args, outcome, t_versions, s_versions, visited,
                           writes, output>>

\* if args.module_layout_version.is_some() { ... .expect(..) ... splice }
Override ==
    /\ pc = "override" /\ outcome = "running"
    /\ IF args.module_layout_version = None
       THEN Goto("write")
       ELSE IF ModuleLayoutName \notin DOMAIN t_versions[1]
       THEN Exit("panic")
       ELSE LET off == t_versions[1][ModuleLayoutName].offset IN
            /\ t_buffer' = splice(t_buffer, off, off + 8,
                                  to_le_bytes(args.module_layout_version[1]))
            /\ pc' = "write"
            /\ UNCHANGED <<args, outcome, t_versions, s_versions, visited,
                           writes, output>>

\* std::fs::write("./test.ko", t_buffer).unwrap(); the write succeeds or
\* fails.  What a failed write leaves in the file is not modelled.
Write ==
    /\ pc = "write" /\ outcome = "running"
    /\ writes' = writes + 1
    /\ \E ok \in BOOLEAN :
        IF ok
        THEN /\ output' = Some(t_buffer)
             /\ outcome' = "done"
             /\ pc' = "end"
        ELSE /\ outcome' = "panic"
             /\ UNCHANGED <<pc, output>>
    /\ UNCHANGED <<args, t_buffer, t_versions, s_versions, visited>>

Next ==
    \/ ParseArgs
    \/ ReadTarget
    \/ ParseTarget
    \/ CheckVersions
    \/ DecodeTarget
    \/ ReadSource
    \/ ParseSource
    \/ DecodeSource
    \/ MergeStep
    \/ MergeDone
    \/ Override
    \/ Write

Spec == Init /\ [][Next]_vars

\* ------------------------------------------------- vocabulary of the claims
\* The target file's bytes as read, before any patch.
Original == args.target.data

\* The number of records of the `__versions` section of a file that has one.
Entries(file) ==
    find_section(file, "__versions")[1].sh_size \div MOD_VER_INFO_SIZE

\* The offset of record i (from 0) of the section, and the name in it.
RecordOffset(file, i) ==
    find_section(file, "__versions")[1].sh_offset + MOD_VER_INFO_SIZE * i

RecordName(file, i) ==
    str_from_u8(Slice(file.data,
                      RecordOffset(file, i) + MOD_VER_INFO_NAME_OFFSET,
                      RecordOffset(file, i) + MOD_VER_INFO_SIZE))

\* The names of the records of the section, by record.
NamesOf(file) == [i \in 0..(Entries(file) - 1) |-> RecordName(file, i)]

\* The last record that bears the name, in the names of a section by record.
LastRecord(names, name) ==
    CHOOSE i \in DOMAIN names :
        /\ names[i] = name
        /\ \A j \in DOMAIN names : j > i => names[j] # name

\* A file that is read and parsed, has the section, and whose section is not
\* a whole number of records or holds a record that ends past the file.
Malformed(file) ==
    /\ file.readable /\ file.parsable
    /\ find_section(file, "__versions") # None
    /\ LET sh == find_section(file, "__versions")[1] IN
       \/ sh.sh_size % MOD_VER_INFO_SIZE # 0
       \/ \E i \in 0..(Entries(file) - 1) :
              RecordOffset(file, i) + MOD_VER_INFO_SIZE > Len(file.data)

SrcGiven == args.src # None
OverrideGiven == args.module_layout_version # None
Ended == outcome # "running"

\* ---------------------------------------------------------------- claim C1
\* The records of the target that the patch is to write: those whose name is
\* in the source table, and those named module_layout when an override is
\* given.
PatchedRecords ==
    LET names == NamesOf(args.target) IN
    {i \in DOMAIN names :
        \/ s_versions # None /\ names[i] \in DOMAIN s_versions[1]
        \/ OverrideGiven /\ names[i] = ModuleLayoutName}

\* C1: once the target's table is decoded, patching never changes the length
\* of the buffer, and every byte that differs from the original lies in the 8
\* checksum bytes of a patched record.
C1_FrameOfPatch ==
    t_versions # None =>
        /\ Len(t_buffer) = Len(Original)
        /\ t_buffer # Original =>
            LET patched == PatchedRecords
                base == RecordOffset(args.target, 0)
            IN  \A p \in 0..(Len(Original) - 1) :
                    t_buffer[p + 1] # Original[p + 1] =>
                        \E i \in patched :
                            /\ p >= base + MOD_VER_INFO_SIZE * i
                            /\ p < base + MOD_VER_INFO_SIZE * i + 8

\* A run with a source and an override that wrote a changed buffer, in which
\* one record of the target was not to be patched.
C1_Witness ==
    /\ outcome = "done" /\ SrcGiven /\ OverrideGiven
    /\ output[1] # Original
    /\ DOMAIN s_versions[1] # {}
    /\ \E i \in 0..(Entries(args.target) - 1) : i \notin PatchedRecords

\* ---------------------------------------------------------------- claim C2
MergeFinished == pc \in {"override", "write", "end"}

\* C2: with a source and no override, once the merge is over, the checksum
\* bytes of every name of the target table are the source's checksum in
\* little-endian (the very bytes of the source's record) when the source table
\* has the name, and the original bytes when it has not; the merge itself
\* never ends the run, and the written file is that buffer.
C2_MergeCopiesSourceChecksums ==
    (SrcGiven /\ ~OverrideGiven) =>
        /\ pc = "merge" => outcome = "running"
        /\ MergeFinished =>
            /\ pc = "override" => outcome = "running"
            /\ output # None => output[1] = t_buffer
            /\ \A name \in DOMAIN t_versions[1] :
                 LET off == t_versions[1][name].offset
                     now == Slice(t_buffer, off, off + 8)
                 IN  IF name \in DOMAIN s_versions[1]
                     THEN LET s_ver == s_versions[1][name] IN
                          /\ now = to_le_bytes(s_ver.crc)
                          /\ now = Slice(args.src[1].data, s_ver.offset,
                                         s_ver.offset + 8)
                     ELSE now = Slice(Original, off, off + 8)

\* A finished run with a source and no override whose target table has a name
\* the source has and a name the source has not.
C2_Witness ==
    /\ outcome = "done" /\ SrcGiven /\ ~OverrideGiven
    /\ \E n \in DOMAIN t_versions[1] : n \in DOMAIN s_versions[1]
    /\ \E n \in DOMAIN t_versions[1] : n \notin DOMAIN s_versions[1]

\* ---------------------------------------------------------------- claim C3
\* C3: with a source and an override, the override step starts only when the
\* merge has been through every name, and from the override step on (and in
\* the written file) the checksum bytes of the target's module_layout record
\* decode, little-endian, to the override value.
C3_OverrideWins ==
    (SrcGiven /\ OverrideGiven /\ t_versions # None
        /\ ModuleLayoutName \in DOMAIN t_versions[1]) =>
        LET off == t_versions[1][ModuleLayoutName].offset IN
        /\ MergeFinished => visited = DOMAIN t_versions[1]
        /\ pc \in {"write", "end"} =>
               from_le_bytes(Slice(t_buffer, off, off + 8))
                   = args.module_layout_version[1]
        /\ output # None =>
               from_le_bytes(Slice(output[1], off, off + 8))
                   = args.module_layout_version[1]

\* A written file where the source table had another checksum for
\* module_layout than the override.
C3_Witness ==
    /\ outcome = "done" /\ SrcGiven /\ OverrideGiven
    /\ ModuleLayoutName \in DOMAIN t_versions[1]
    /\ ModuleLayoutName \in DOMAIN s_versions[1]
    /\ s_versions[1][ModuleLayoutName].crc # args.module_layout_version[1]

\* ---------------------------------------------------------------- claim C4
\* C4: when an override is requested and the decoded target table has no
\* module_layout, the run never gets past the override step, never calls the
\* write, and when it has ended it has ended in failure (a panic at the
\* override step, if it got there).
C4_OverrideWithoutModuleLayoutFails ==
    (OverrideGiven /\ t_versions # None
        /\ ModuleLayoutName \notin DOMAIN t_versions[1]) =>
        /\ writes = 0 /\ output = None
        /\ pc \notin {"write", "end"}
        /\ Ended => ExitCode(outcome) # 0
        /\ (Ended /\ pc = "override") => outcome = "panic"

\* The run panicked at the override step after the merge had changed the
\* buffer in memory.
C4_Witness ==
    /\ outcome = "panic" /\ pc = "override" /\ SrcGiven /\ OverrideGiven
    /\ ModuleLayoutName \notin DOMAIN t_versions[1]
    /\ t_buffer # Original

\* ---------------------------------------------------------------- claim C5
\* The file can be read, parsed and decoded into a table.
Decodes(file) ==
    /\ file.readable /\ file.parsable
    /\ ~get_versions(file, file.data).panicked
    /\ get_versions(file, file.data).value # None

\* C5: std::fs::write is called at most once, and only when the target
\* decoded, the source (if given) was read and decoded and merged for every
\* name, and the override (if requested) found module_layout and was applied;
\* a run that ended in failure before the write step has not called it and
\* has left no output.
C5_WriteOnlyAfterAllSteps ==
    /\ writes <= 1
    /\ output # None => writes = 1
    /\ writes = 1 =>
        /\ Decodes(args.target) /\ t_versions # None
        /\ SrcGiven =>
            /\ Decodes(args.src[1]) /\ s_versions # None
            /\ visited = DOMAIN t_versions[1]
        /\ OverrideGiven =>
            /\ ModuleLayoutName \in DOMAIN t_versions[1]
            /\ LET off == t_versions[1][ModuleLayoutName].offset IN
               Slice(t_buffer, off, off + 8)
                   = to_le_bytes(args.module_layout_version[1])
    /\ (Ended /\ ExitCode(outcome) # 0 /\ pc # "write") =>
           writes = 0 /\ output = None

\* The run failed at the decoding of the source, after the target decoded.
C5_Witness ==
    /\ Ended /\ pc = "get_s_versions" /\ t_versions # None
    /\ writes = 0 /\ output = None

\* ---------------------------------------------------------------- claim C6
\* C6: a target or a source whose section is not a whole number of records,
\* or holds a record that ends past the file, never yields a table: the run
\* gets no further than the decoding of that module, where it ends in
\* failure, and writes nothing.
C6_MalformedTableFails ==
    /\ Malformed(args.target) =>
        /\ t_versions = None
        /\ writes = 0 /\ output = None
        /\ pc \in {"parse_args", "read_target", "parse_target",
                   "check_versions", "get_t_versions"}
        /\ Ended => ExitCode(outcome) # 0
    /\ (SrcGiven /\ Malformed(args.src[1])) =>
        /\ s_versions = None
        /\ writes = 0 /\ output = None
        /\ pc \notin {"merge", "override", "write", "end"}
        /\ outcome # "done"
        /\ (Ended /\ pc = "get_s_versions") => ExitCode(outcome) # 0

\* The decoding of a target failed whose section has the room of a record
\* and a remainder.
C6_Witness ==
    /\ Ended /\ pc = "get_t_versions"
    /\ LET sh == find_section(args.target, "__versions")[1] IN
       /\ sh.sh_size % MOD_VER_INFO_SIZE # 0
       /\ sh.sh_size > MOD_VER_INFO_SIZE

\* ---------------------------------------------------------------- claim C7
\* C7: when src or an override is given and the target, read and parsed, has
\* no `__versions` section, the run ends only with the warning and exit
\* status 0, at the section check, with the buffer as read, no table and no
\* write; and a run ends that way only for a target without the section, so
\* never for a malformed table.
C7_AbsentSectionEndsInSuccess ==
    /\ ((SrcGiven \/ OverrideGiven)
        /\ args.target.readable /\ args.target.parsable
        /\ find_section(args.target, "__versions") = None) =>
        /\ outcome \in {"running", "warn_absent"}
        /\ Ended => ExitCode(outcome) = 0 /\ pc = "check_versions"
        /\ pc \in {"parse_args", "read_target", "parse_target",
                   "check_versions"}
        /\ t_buffer \in {<< >>, Original}
        /\ t_versions = None /\ s_versions = None
        /\ writes = 0 /\ output = None
    /\ outcome = "warn_absent" =>
        /\ find_section(args.target, "__versions") = None
        /\ ~Malformed(args.target)

\* The run ended with the warning although a source and an override were
\* given.
C7_Witness ==
    /\ outcome = "warn_absent" /\ SrcGiven /\ OverrideGiven
    /\ Len(t_buffer) > MOD_VER_INFO_SIZE

\* ---------------------------------------------------------------- claim C8
\* C8 as stated: a decoded table has exactly section size / 64 records,
\* whatever the name fields hold.
C8_TableSizeIsEntries ==
    /\ t_versions # None =>
           Cardinality(DOMAIN t_versions[1]) = Entries(args.target)
    /\ s_versions # None =>
           Cardinality(DOMAIN s_versions[1]) = Entries(args.src[1])

TableSizeOf(table, file) ==
    LET names == NamesOf(file) IN
    /\ DOMAIN table = {names[i] : i \in DOMAIN names}
    /\ Cardinality(DOMAIN table) <= Entries(file)
    /\ (\A i, j \in DOMAIN names : i # j => names[i] # names[j])
           => Cardinality(DOMAIN table) = Entries(file)

\* C8 amended: a decoded table has one record for each distinct name among
\* the section size / 64 records of the section, so at most section size / 64
\* records, and exactly that many when no two records have the same name.
C8_TableSizeIsDistinctNames ==
    /\ t_versions # None => TableSizeOf(t_versions[1], args.target)
    /\ s_versions # None => TableSizeOf(s_versions[1], args.src[1])

\* A target table decoded from two records of one name, and a source table
\* decoded from two records of different names.
C8_Witness ==
    /\ t_versions # None /\ s_versions # None
    /\ Entries(args.target) = 2
    /\ Cardinality(DOMAIN t_versions[1]) = 1
    /\ Entries(args.src[1]) = 2
    /\ Cardinality(DOMAIN s_versions[1]) = 2

\* ---------------------------------------------------------------- claim C9
TableKeepsLast(table, file) ==
    LET names == NamesOf(file) IN
    \A name \in DOMAIN table :
        LET off == RecordOffset(file, LastRecord(names, name)) IN
        /\ table[name].offset = off
        /\ table[name].crc = from_le_bytes(Slice(file.data, off, off + 8))

\* C9: a decoded table holds, for each name, the offset and the checksum of
\* the last record of the section that has the name, and the checksum bytes
\* of every earlier record of the target with that name stay as they were
\* read.
C9_DuplicateNameKeepsLast ==
    /\ t_versions # None =>
        /\ TableKeepsLast(t_versions[1], args.target)
        /\ LET names == NamesOf(args.target) IN
           \A i \in DOMAIN names :
               i # LastRecord(names, names[i]) =>
                   LET off == RecordOffset(args.target, i) IN
                   Slice(t_buffer, off, off + 8) = Slice(Original, off, off + 8)
    /\ s_versions # None => TableKeepsLast(s_versions[1], args.src[1])

\* A written file whose target has two records of one name that the source
\* has too: the last was patched.
C9_Witness ==
    /\ outcome = "done" /\ SrcGiven
    /\ Entries(args.target) = 2
    /\ RecordName(args.target, 0) = RecordName(args.target, 1)
    /\ RecordName(args.target, 0) \in DOMAIN s_versions[1]
    /\ output[1] # Original

\* --------------------------------------------------------------- claim C10
\* The orders in which the names of a set can be visited.
Orders(S) ==
    {o \in [1..Cardinality(S) -> S] : \A n \in S : \E k \in DOMAIN o : o[k] = n}

\* The buffer after the merge loop has visited the names k.. of the order.
RECURSIVE MergeInOrder(_, _, _)
MergeInOrder(buf, order, k) ==
    IF k > Len(order) THEN buf
    ELSE LET name == order[k]
             off == t_versions[1][name].offset
         IN  MergeInOrder(
                 IF name \in DOMAIN s_versions[1]
                 THEN splice(buf, off, off + 8,
                             to_le_bytes(s_versions[1][name].crc))
                 ELSE buf,
                 order, k + 1)

\* The buffer after the override step.
AfterOverride(buf) ==
    IF OverrideGiven /\ ModuleLayoutName \in DOMAIN t_versions[1]
    THEN LET off == t_versions[1][ModuleLayoutName].offset IN
         splice(buf, off, off + 8, to_le_bytes(args.module_layout_version[1]))
    ELSE buf

\* C10: the records of the target table lie at section offset + 64 * i for a
\* different i each, so that their checksum ranges are disjoint; and the
\* buffer after the merge, and after the override, is the one that every
\* order of visiting the names of the target table gives.
C10_MergeOrderIrrelevant ==
    t_versions # None =>
        /\ \A n \in DOMAIN t_versions[1] :
               \E i \in 0..(Entries(args.target) - 1) :
                   t_versions[1][n].offset = RecordOffset(args.target, i)
        /\ \A n1, n2 \in DOMAIN t_versions[1] :
               n1 # n2 =>
                   \/ t_versions[1][n1].offset + 8 <= t_versions[1][n2].offset
                   \/ t_versions[1][n2].offset + 8 <= t_versions[1][n1].offset
        /\ (SrcGiven /\ pc = "override") =>
               \A o \in Orders(DOMAIN t_versions[1]) :
                   MergeInOrder(Original, o, 1) = t_buffer
        /\ (SrcGiven /\ pc \in {"write", "end"}) =>
               \A o \in Orders(DOMAIN t_versions[1]) :
                   AfterOverride(MergeInOrder(Original, o, 1)) = t_buffer

\* A written file for which the merge patched two names, which it could
\* visit in two orders.
C10_Witness ==
    /\ outcome = "done" /\ SrcGiven
    /\ Cardinality(DOMAIN t_versions[1] \cap DOMAIN s_versions[1]) >= 2
====
